---- MODULE Spec2Model ----
(***************************************************************************)
(* Model of the freelancer tax estimator core (src/utils.py) and of the    *)
(* computation pass of the app (src/app.py).                               *)
(*                                                                         *)
(* Units.  Incomes are whole currency units.  A marginal rate is held in   *)
(* percent (0.10 -> 10), so calculate_tax is held in hundredths of a       *)
(* currency unit (cents): income * percent.  Exchange rates and converted  *)
(* amounts are exact rationals <<numerator, denominator>>; the model does  *)
(* not round, so binary floating-point error is outside it.                *)
(***************************************************************************)
EXTENDS Integers, Sequences, FiniteSets, TLC

VARIABLES brackets, taxCall, prevTaxCall, pass

taxVars == <<brackets, taxCall, prevTaxCall, pass>>

VARIABLES now, cache, fetchTimes, lastFetched, call, prev

fxVars == <<now, cache, fetchTimes, lastFetched, call, prev>>

VARIABLE tipsCall

VARIABLES current_year, quarterCall, run, prevRun

appVars == <<current_year, quarterCall, run, prevRun>>

vars == <<taxVars, fxVars, tipsCall, appVars>>

(***************************************************************************)
(* The state before any call                                               *)
(***************************************************************************)
EmptyTable == [c \in {} |-> <<0, 1>>]

NoCache == [has |-> FALSE, at |-> 0, table |-> EmptyTable]

NoCall == [done |-> FALSE, amount |-> <<0, 1>>, from |-> "USD", to |-> "USD", at |-> 0,
           fetched |-> FALSE, kind |-> "none", rates |-> EmptyTable,
           raised |-> "none", value |-> <<0, 1>>]

\* The process start: the clock at 0, nothing cached, no call made.
FxIdle ==
    /\ now = 0
    /\ cache = NoCache
    /\ fetchTimes = << >>
    /\ lastFetched = EmptyTable
    /\ call = NoCall
    /\ prev = NoCall

NoTips == [done |-> FALSE, income |-> 0, expenses |-> << >>, deductions |-> << >>,
           tips |-> << >>]

TipsIdle == tipsCall = NoTips

NoQuarterCall == [done |-> FALSE, annual_income |-> 0, tax_amount |-> 0, year |-> 0,
                  quarters |-> << >>]

NoRun == [done |-> FALSE, income_sources |-> << >>, expenses |-> << >>,
          selected_deductions |-> << >>, country |-> "United States",
          total_income |-> 0, total_expenses |-> 0, quarterly_taxes |-> << >>,
          tips |-> << >>, taxable_income |-> 0, tax_amount |-> 0, net_profit |-> 0]

\* The calendar year datetime.datetime.now() reports at process start.
FirstYear == 2026

\* No quarterly call and no pass of the page made yet.
AppIdle ==
    /\ current_year = FirstYear
    /\ quarterCall = NoQuarterCall
    /\ run = NoRun
    /\ prevRun = NoRun

(***************************************************************************)
(* Progressive tax calculator                                              *)
(***************************************************************************)

\* float('inf'), the upper bound of the top bracket; it only ever appears as
\* an upper bound and is handled by SubInf and MinInf below.
Inf == -1

\* upper - lower where upper may be float('inf'): inf - lower = inf.
SubInf(upper, lower) == IF upper = Inf THEN Inf ELSE upper - lower

\* min(a, b) where b may be float('inf') and a is finite.
MinInf(a, b) == IF b = Inf THEN a ELSE IF a < b THEN a ELSE b

\* TAX_BRACKETS["United States"], rates in percent.
USBrackets ==
    << <<0, 11000, 10>>,
       <<11001, 44725, 12>>,
       <<44726, 95375, 22>>,
       <<95376, 182100, 24>>,
       <<182101, 231250, 32>>,
       <<231251, 578125, 35>>,
       <<578126, Inf, 37>> >>

TAX_BRACKETS == [c \in {"United States"} |-> USBrackets]

\* Mutants of TaxableAmount: the guard "income > lower" dropped; the cap
\* "upper - lower" dropped.
TaxableAmountDropGuard(inc, b) == MinInf(inc - b[1], SubInf(b[2], b[1]))

TaxableAmountNoCap(inc, b) == IF inc > b[1] THEN inc - b[1] ELSE 0

\* taxable_amount of one bracket; 0 when the bracket's branch is not taken.

TaxableAmount(inc, b) ==
    IF inc > b[1] THEN MinInf(inc - b[1], SubInf(b[2], b[1])) ELSE 0

\* The loop of calculate_tax over the first n brackets: tax accumulates
\* taxable_amount * rate; taxed accumulates taxable_amount itself.
RECURSIVE TaxLoop(_, _, _)
TaxLoop(inc, br, n) ==
    IF n = 0 THEN [tax |-> 0, taxed |-> 0]
    ELSE LET acc == TaxLoop(inc, br, n - 1)
             amt == TaxableAmount(inc, br[n])
         IN  [tax |-> acc.tax + amt * br[n][3], taxed |-> acc.taxed + amt]

calculate_tax(inc, br) == TaxLoop(inc, br, Len(br)).tax

\* Sum of the per-bracket taxable amounts of one calculate_tax call.
TaxedAmount(inc, br) == TaxLoop(inc, br, Len(br)).taxed

(***************************************************************************)
(* Inputs of the tax specification                                         *)
(***************************************************************************)
MaxBound == 2
MaxBrackets == 3
MaxIncome == 4

Rates == {0, 10}

\* One bracket: 0 <= lower < upper, upper possibly unbounded.
Brackets ==
    { b \in (0..MaxBound) \X ((1..MaxBound) \cup {Inf}) \X Rates :
        b[2] = Inf \/ b[1] < b[2] }

\* Bracket tables are ordered sequences: lower bounds strictly increase.
\* Uppers are free, so tables with gaps and with overlaps are included.
Ordered(br) == \A i \in 1..(Len(br) - 1) : br[i][1] < br[i + 1][1]

BracketSeqs(n) == {br \in [1..n -> Brackets] : Ordered(br)}

\* Every ordered table of at most MaxBrackets brackets, and the table the
\* program ships.
BracketTables == (UNION {BracketSeqs(n) : n \in 1..MaxBrackets}) \cup {USBrackets}

\* Incomes: losses, small incomes around the bounds of the drawn tables, and
\* the income of the United States example.
Incomes == {-2, -1} \cup (0..MaxIncome) \cup {50000}

\* The BracketTable invariant: contiguous, non-overlapping, covering [0, inf).
BracketTableInvariant(br) ==
    /\ Len(br) >= 1
    /\ br[1][1] = 0
    /\ br[Len(br)][2] = Inf
    /\ \A i \in 1..Len(br) : br[i][3] >= 0 /\ br[i][3] <= 100
    /\ \A i \in 1..(Len(br) - 1) :
          /\ br[i][2] # Inf
          /\ br[i][1] < br[i][2]
          /\ br[i + 1][1] = br[i][2]

NoTaxCall == [called |-> FALSE, income |-> 0, tax |-> 0, taxed |-> 0]

NoPass == [done |-> FALSE, total_income |-> 0, total_expenses |-> 0,
           taxable_income |-> 0, tax_amount |-> 0]

\* The state of the tax calculator and of the pass before any call.
TaxIdle ==
    /\ taxCall = NoTaxCall
    /\ prevTaxCall = NoTaxCall
    /\ pass = NoPass

InitTax ==
    /\ brackets \in BracketTables
    /\ TaxIdle
    /\ FxIdle
    /\ TipsIdle
    /\ AppIdle

\* A call calculate_tax(inc, brackets); the previous call is kept so that
\* two results on the same table can be compared.
CalculateTax(inc) ==
    /\ prevTaxCall' = taxCall
    /\ taxCall' = [called |-> TRUE, income |-> inc,
                   tax |-> calculate_tax(inc, brackets),
                   taxed |-> TaxedAmount(inc, brackets)]
    /\ UNCHANGED <<brackets, pass, fxVars, tipsCall, appVars>>

\* sum(x["amount"] for x in items)
RECURSIVE SumAmounts(_)
SumAmounts(items) ==
    IF items = << >> THEN 0 ELSE Head(items) + SumAmounts(Tail(items))

\* The amounts of the entered income sources, or of the entered expenses.
ItemLists == {<< >>, <<50000>>, <<20000, 30000>>}

\* One computation pass of the app: the totals of the entered income sources
\* and expenses, then taxable_income and tax_amount.  The app calls
\* calculate_tax with the table of the chosen country only, so the pass
\* belongs to the runs whose table is that one.
ComputePass(income_sources, expenses, country) ==
    LET total_income == SumAmounts(income_sources)
        total_expenses == SumAmounts(expenses)
        taxable_income == total_income - total_expenses
    IN  /\ brackets = TAX_BRACKETS[country]
        /\ pass' = [done |-> TRUE, total_income |-> total_income,
                    total_expenses |-> total_expenses,
                    taxable_income |-> taxable_income,
                    tax_amount |-> calculate_tax(taxable_income, brackets)]
        /\ UNCHANGED <<brackets, taxCall, prevTaxCall, fxVars, tipsCall, appVars>>

NextTax ==
    \/ \E inc \in Incomes : CalculateTax(inc)
    \/ \E src \in ItemLists, ex \in ItemLists :
          ComputePass(src, ex, "United States")

SpecTax == InitTax /\ [][NextTax]_vars

(***************************************************************************)
(* Currency converter                                                      *)
(***************************************************************************)

RECURSIVE GCD(_, _)
GCD(a, b) == IF b = 0 THEN a ELSE GCD(b, a % b)

Abs(x) == IF x < 0 THEN -x ELSE x

\* The rational n/d (d # 0) in lowest terms with a positive denominator.
Rat(n, d) ==
    LET g == GCD(Abs(n), Abs(d))
        sg == IF d < 0 THEN -1 ELSE 1
    IN  <<(sg * n) \div g, (sg * d) \div g>>

\* a * b and a / b on rationals (b # 0 for RDiv).
RMul(a, b) == Rat(a[1] * b[1], a[2] * b[2])

RDiv(a, b) == Rat(a[1] * b[2], a[2] * b[1])

\* The static fallback table.
CURRENCY_RATES ==
    [c \in {"USD", "EUR", "GBP", "CAD", "AUD", "JPY", "CHF", "NZD", "CNY", "INR"} |->
        CASE c = "USD" -> Rat(1, 1)
          [] c = "EUR" -> Rat(92, 100)
          [] c = "GBP" -> Rat(79, 100)
          [] c = "CAD" -> Rat(135, 100)
          [] c = "AUD" -> Rat(152, 100)
          [] c = "JPY" -> Rat(15150, 100)
          [] c = "CHF" -> Rat(90, 100)
          [] c = "NZD" -> Rat(165, 100)
          [] c = "CNY" -> Rat(723, 100)
          [] c = "INR" -> Rat(8334, 100)]

\* ttl of st.cache_data on get_exchange_rates, in seconds.
CacheTTL == 3600

Ok(v) == [raised |-> "none", value |-> v]

Raise(e) == [raised |-> e, value |-> <<0, 1>>]

\* Mutant of Pivot: the conversion to USD multiplies instead of dividing.
PivotMultiplies(rates, amount, from_currency, to_currency) ==
    IF from_currency # "USD" /\ from_currency \notin DOMAIN rates THEN Raise("KeyError")
    ELSE
      LET amount_usd == IF from_currency # "USD"
                        THEN RMul(amount, rates[from_currency]) ELSE amount
      IN  IF to_currency # "USD" /\ to_currency \notin DOMAIN rates THEN Raise("KeyError")
          ELSE IF to_currency # "USD" THEN Ok(RMul(amount_usd, rates[to_currency]))
          ELSE Ok(amount_usd)

\* Mutant of Pivot: a code missing from the table is given the rate 1.
PivotDefaultsRate(rates, amount, from_currency, to_currency) ==
    LET rate(c) == IF c \in DOMAIN rates THEN rates[c] ELSE <<1, 1>>
        amount_usd == IF from_currency # "USD"
                      THEN RDiv(amount, rate(from_currency)) ELSE amount
    IN  IF to_currency # "USD" THEN Ok(RMul(amount_usd, rate(to_currency)))
        ELSE Ok(amount_usd)

\* The USD-pivot arithmetic on one rate table, the same in the try block and
\* in the except block of convert_currency: rates[from] and rates[to] are
\* looked up only for codes other than "USD"; a missing code raises KeyError,
\* a zero rate ZeroDivisionError.
Pivot(rates, amount, from_currency, to_currency) ==
    IF from_currency # "USD" /\ from_currency \notin DOMAIN rates THEN Raise("KeyError")
    ELSE IF from_currency # "USD" /\ rates[from_currency][1] = 0
         THEN Raise("ZeroDivisionError")
    ELSE
      LET amount_usd == IF from_currency # "USD"
                        THEN RDiv(amount, rates[from_currency]) ELSE amount
      IN  IF to_currency # "USD" /\ to_currency \notin DOMAIN rates THEN Raise("KeyError")
          ELSE IF to_currency # "USD" THEN Ok(RMul(amount_usd, rates[to_currency]))
          ELSE Ok(amount_usd)

\* convert_currency for from # to once the rate table is obtained: the try
\* block on that table, and on any exception the except block on
\* CURRENCY_RATES, whose own exception propagates to the caller.
ConvertWith(rates, amount, from_currency, to_currency) ==
    LET tried == Pivot(rates, amount, from_currency, to_currency)
    IN  IF tried.raised = "none" THEN tried
        ELSE Pivot(CURRENCY_RATES, amount, from_currency, to_currency)

\* Live tables the provider may answer with (base USD).
LiveA == [c \in {"USD", "EUR", "GBP", "SEK"} |->
            CASE c = "USD" -> Rat(1, 1) [] c = "EUR" -> Rat(9, 10)
              [] c = "GBP" -> Rat(4, 5) [] c = "SEK" -> Rat(10, 1)]

LiveB == [c \in {"USD", "EUR", "SEK"} |->
            CASE c = "USD" -> Rat(1, 1) [] c = "EUR" -> Rat(19, 20)
              [] c = "SEK" -> Rat(11, 1)]

\* What one fetch attempt meets: the credential lookup, requests.get,
\* raise_for_status, response.json() and the payload.
Response(kind, credential, network_ok, status_ok, json_ok, result, table) ==
    [kind |-> kind, credential |-> credential, network_ok |-> network_ok,
     status_ok |-> status_ok, json_ok |-> json_ok, result |-> result,
     conversion_rates |-> table]

Responses ==
    { Response("no_credential", FALSE, TRUE, TRUE, TRUE, "success", LiveA),
      Response("network", TRUE, FALSE, TRUE, TRUE, "success", LiveA),
      Response("http_status", TRUE, TRUE, FALSE, TRUE, "error", LiveA),
      Response("malformed", TRUE, TRUE, TRUE, FALSE, "success", LiveA),
      Response("bad_result", TRUE, TRUE, TRUE, TRUE, "error", LiveA),
      Response("success", TRUE, TRUE, TRUE, TRUE, "success", LiveA),
      Response("success", TRUE, TRUE, TRUE, TRUE, "success", LiveB) }

\* Mutant of get_exchange_rates: the result field is not checked.
get_exchange_rates_unchecked(resp) ==
    IF ~resp.credential \/ ~resp.network_ok \/ ~resp.status_ok \/ ~resp.json_ok
    THEN CURRENCY_RATES
    ELSE resp.conversion_rates

\* The body of get_exchange_rates: every exception of the try block and a
\* result other than "success" end in the except block, which returns
\* CURRENCY_RATES; the function itself never raises.
get_exchange_rates(resp) ==
    IF ~resp.credential THEN CURRENCY_RATES
    ELSE IF ~resp.network_ok THEN CURRENCY_RATES
    ELSE IF ~resp.status_ok THEN CURRENCY_RATES
    ELSE IF ~resp.json_ok THEN CURRENCY_RATES
    ELSE IF resp.result = "success" THEN resp.conversion_rates
    ELSE CURRENCY_RATES

\* Mutant of CacheHit: an entry holding the fallback table is not reused.
CacheHitUnlessFallback(c, t) == c.has /\ t - c.at < CacheTTL /\ c.table # CURRENCY_RATES

\* st.cache_data(ttl=3600): the entry of get_exchange_rates("USD") is served
\* while it is younger than the ttl.
CacheHit(c, t) == c.has /\ t - c.at < CacheTTL

MaxTime == 5400
TickSteps == {CacheTTL \div 2, CacheTTL \div 2 - 1}
FxAmounts == {<<100, 1>>}
FxCodes == {"USD", "EUR", "GBP", "SEK", "XXX"}

InitFx ==
    /\ FxIdle
    /\ brackets = USBrackets
    /\ TaxIdle
    /\ TipsIdle
    /\ AppIdle

\* Mutant of Convert's early return: equal codes still obtain the table.
SameCurrencyNever(from_currency, to_currency) == FALSE

SameCurrency(from_currency, to_currency) == from_currency = to_currency

\* One call convert_currency(amount, from_currency, to_currency) at time
\* now.  On a cache miss get_exchange_rates runs and meets one of Responses;
\* its return value, the fallback table included, becomes the cache entry.
\* fetchTimes and lastFetched record the fetch attempts; keep is the call
\* record kept in prev.
Convert(amount, from_currency, to_currency, keep) ==
    /\ prev' = keep
    /\ IF SameCurrency(from_currency, to_currency)
       THEN /\ call' = [done |-> TRUE, amount |-> amount, from |-> from_currency,
                        to |-> to_currency, at |-> now, fetched |-> FALSE,
                        kind |-> "none", rates |-> EmptyTable,
                        raised |-> "none", value |-> amount]
            /\ UNCHANGED <<now, cache, fetchTimes, lastFetched, taxVars, tipsCall, appVars>>
       ELSE IF CacheHit(cache, now)
       THEN /\ call' = [done |-> TRUE, amount |-> amount, from |-> from_currency,
                        to |-> to_currency, at |-> now, fetched |-> FALSE,
                        kind |-> "cached", rates |-> cache.table] @@
                       ConvertWith(cache.table, amount, from_currency, to_currency)
            /\ UNCHANGED <<now, cache, fetchTimes, lastFetched, taxVars, tipsCall, appVars>>
       ELSE \E resp \in Responses :
              LET rates == get_exchange_rates(resp)
              IN  /\ cache' = [has |-> TRUE, at |-> now, table |-> rates]
                  /\ fetchTimes' = Append(fetchTimes, now)
                  /\ lastFetched' = rates
                  /\ call' = [done |-> TRUE, amount |-> amount, from |-> from_currency,
                              to |-> to_currency, at |-> now, fetched |-> TRUE,
                              kind |-> resp.kind, rates |-> rates] @@
                             ConvertWith(rates, amount, from_currency, to_currency)
                  /\ UNCHANGED <<now, taxVars, tipsCall, appVars>>

ConvertCurrency(amount, from_currency, to_currency) ==
    Convert(amount, from_currency, to_currency, NoCall)

\* The second leg of a round trip: the value just returned is converted back.
ConvertBack ==
    /\ call.done /\ call.raised = "none" /\ ~prev.done
    /\ Convert(call.value, call.to, call.from, call)

\* Time passes.
Tick(d) ==
    /\ now + d <= MaxTime
    /\ now' = now + d
    /\ UNCHANGED <<cache, fetchTimes, lastFetched, call, prev, taxVars, tipsCall, appVars>>

NextFx ==
    \/ \E a \in FxAmounts, f \in FxCodes, t \in FxCodes : ConvertCurrency(a, f, t)
    \/ ConvertBack
    \/ \E d \in TickSteps : Tick(d)

SpecFx == InitFx /\ [][NextFx]_vars

(***************************************************************************)
(* Tax optimization advisor                                                *)
(***************************************************************************)

\* a < b on rationals with positive denominators.
RLess(a, b) == a[1] * b[2] < b[1] * a[2]

\* expense_ratio: the expense total over the income, 0 unless income > 0.
ExpenseRatio(income, expenses) ==
    IF income > 0 THEN Rat(SumAmounts(expenses), income) ELSE Rat(0, 1)

\* Mutant of RatioIsLow: a ratio of exactly 0.2 counts as low.
RatioIsLowInclusive(ratio) == ~RLess(Rat(2, 10), ratio)

\* expense_ratio < 0.2
RatioIsLow(ratio) == RLess(ratio, Rat(2, 10))

\* income > 100000
HighIncome(income) == income > 100000

When(cond, emitted) == IF cond THEN emitted ELSE << >>

\* The tips list after the appends of get_tax_optimization_tips, each tip
\* named by a short identifier; deductions is the dict of selections.
get_tax_optimization_tips(income, expenses, deductions) ==
    LET expense_ratio == ExpenseRatio(income, expenses)
        absent(name) == name \notin DOMAIN deductions
    IN  When(absent("Retirement Contributions"),
             IF HighIncome(income) THEN <<"retirement_high">> ELSE <<"retirement">>)
        \o When(absent("Home Office"), <<"home_office">>)
        \o When(absent("Health Insurance"), <<"health_insurance">>)
        \o When(RatioIsLow(expense_ratio),
                <<"expense_ratio", "sub_software", "sub_training", "sub_supplies">>)
        \o When(HighIncome(income),
                <<"s_corp">> \o When(absent("Professional Services"), <<"tax_professional">>))
        \o <<"quarterly">>
        \o When(absent("Professional Development"), <<"education">>)
        \o When(absent("Marketing & Advertising"), <<"marketing">>)

MaxExpenses == 1
TipIncomes == {0, 100000, 100001, 150000}
ExpenseAmounts == {15000, 20000, 30000}
ExpenseLists == UNION {[1..n -> ExpenseAmounts] : n \in 0..MaxExpenses}

\* The categories the advisor looks at, and one it does not.
DeductionNames ==
    {"Retirement Contributions", "Home Office", "Health Insurance",
     "Professional Services", "Professional Development",
     "Marketing & Advertising", "Travel"}

\* Selections: a chosen magnitude for each selected category.
DeductionDicts == UNION {[S -> {100}] : S \in SUBSET DeductionNames}

\* The arguments of the call are drawn here; GetTips applies the function.
InitTips ==
    /\ \E i \in TipIncomes, e \in ExpenseLists, d \in DeductionDicts :
          tipsCall = [done |-> FALSE, income |-> i, expenses |-> e,
                      deductions |-> d, tips |-> << >>]
    /\ brackets = USBrackets
    /\ TaxIdle
    /\ FxIdle
    /\ AppIdle

\* The call get_tax_optimization_tips(income, expenses, deductions) on the
\* drawn arguments.
GetTips ==
    /\ ~tipsCall.done
    /\ tipsCall' = [tipsCall EXCEPT
                      !.done = TRUE,
                      !.tips = get_tax_optimization_tips(tipsCall.income,
                                   tipsCall.expenses, tipsCall.deductions)]
    /\ UNCHANGED <<taxVars, fxVars, appVars>>

NextTips == GetTips

SpecTips == InitTips /\ [][NextTips]_vars

(***************************************************************************)
(* Quarterly scheduler and the pass of the page                            *)
(***************************************************************************)

\* a + b on rationals.
RAdd(a, b) == Rat(a[1] * b[2] + b[1] * a[2], a[2] * b[2])

\* Mutant of QuarterlyAmount: the installment is a quarter of the income.
QuarterlyAmountOfIncome(annual_income, tax_amount) == Rat(100 * annual_income, 4)

\* quarterly_amount = tax_amount / 4; annual_income is a parameter of
\* calculate_quarterly_tax that its body never reads.
QuarterlyAmount(annual_income, tax_amount) == Rat(tax_amount, 4)

\* calculate_quarterly_tax, year being datetime.datetime.now().year; a due
\* date f"April 15, {current_year}" is held as <<"April", 15, year>>.
calculate_quarterly_tax(annual_income, tax_amount, year) ==
    LET quarterly_amount == QuarterlyAmount(annual_income, tax_amount)
    IN  [Q1 |-> [due_date |-> <<"April", 15, year>>, amount |-> quarterly_amount],
         Q2 |-> [due_date |-> <<"June", 15, year>>, amount |-> quarterly_amount],
         Q3 |-> [due_date |-> <<"September", 15, year>>, amount |-> quarterly_amount],
         Q4 |-> [due_date |-> <<"January", 15, year + 1>>, amount |-> quarterly_amount]]

\* Mutant of TaxableIncome: the selected deductions are subtracted too.
TaxableIncomeLessDeductions(total_income, total_expenses, selected_deductions) ==
    LET RECURSIVE Total(_)
        Total(S) == IF S = {} THEN 0
                    ELSE LET n == CHOOSE n \in S : TRUE
                         IN  selected_deductions[n] + Total(S \ {n})
    IN  total_income - total_expenses - Total(DOMAIN selected_deductions)

\* taxable_income = total_income - total_expenses; selected_deductions is in
\* scope there and is not read.
TaxableIncome(total_income, total_expenses, selected_deductions) ==
    total_income - total_expenses

LastYear == 2027
QuarterIncomes == {0, 50000}
QuarterTaxes == {1, 400000}

\* The entered income sources (the page asks for at least one) and expenses.
SourceLists == {<<50000>>, <<90000, 30000>>}
ExpenseEntries == {<< >>, <<20000, 30000>>}

\* Selections of the deductions tab: only magnitudes above 0 are kept.
SelectedDeductions == UNION {[S -> {20}] : S \in SUBSET {"Home Office", "Travel"}}

InitApp ==
    /\ AppIdle
    /\ brackets = USBrackets
    /\ TaxIdle
    /\ FxIdle
    /\ TipsIdle

\* A call calculate_quarterly_tax(annual_income, tax_amount), tax_amount in
\* hundredths.
QuarterlyTax(annual_income, tax_amount) ==
    /\ quarterCall' = [done |-> TRUE, annual_income |-> annual_income,
                       tax_amount |-> tax_amount, year |-> current_year,
                       quarters |-> calculate_quarterly_tax(annual_income, tax_amount,
                                                            current_year)]
    /\ UNCHANGED <<current_year, run, prevRun, taxVars, fxVars, tipsCall>>

\* One pass of the page over the entered values: the totals, the quarterly
\* estimate and the tips of the tax-planning tab, the selections of the
\* deductions tab, then taxable_income, tax_amount and the summary.  The
\* previous pass is kept so that two passes can be compared.
RunPass(income_sources, expenses, selected_deductions, country) ==
    LET total_income == SumAmounts(income_sources)
        total_expenses == SumAmounts(expenses)
        quarterly_taxes ==
            calculate_quarterly_tax(total_income,
                calculate_tax(total_income - total_expenses, TAX_BRACKETS[country]),
                current_year)
        tips == get_tax_optimization_tips(total_income, expenses, << >>)
        taxable_income == TaxableIncome(total_income, total_expenses, selected_deductions)
        tax_amount == calculate_tax(taxable_income, TAX_BRACKETS[country])
    IN  /\ prevRun' = run
        /\ run' = [done |-> TRUE, income_sources |-> income_sources,
                   expenses |-> expenses, selected_deductions |-> selected_deductions,
                   country |-> country, total_income |-> total_income,
                   total_expenses |-> total_expenses,
                   quarterly_taxes |-> quarterly_taxes, tips |-> tips,
                   taxable_income |-> taxable_income, tax_amount |-> tax_amount,
                   net_profit |-> 100 * taxable_income - tax_amount]
        /\ UNCHANGED <<current_year, quarterCall, taxVars, fxVars, tipsCall>>

\* The calendar year changes.
NewYear ==
    /\ current_year < LastYear
    /\ current_year' = current_year + 1
    /\ UNCHANGED <<quarterCall, run, prevRun, taxVars, fxVars, tipsCall>>

NextApp ==
    \/ \E ai \in QuarterIncomes, ta \in QuarterTaxes : QuarterlyTax(ai, ta)
    \/ \E src \in SourceLists, ex \in ExpenseEntries, sd \in SelectedDeductions :
          RunPass(src, ex, sd, "United States")
    \/ NewYear

SpecApp == InitApp /\ [][NextApp]_vars

(***************************************************************************)
(* Claims about the tax calculator                                         *)
(***************************************************************************)

\* x <= upper where upper may be float('inf').
LeqInf(x, upper) == upper = Inf \/ x <= upper

\* C1: on every bracket table that satisfies the BracketTable invariant,
\* calculate_tax is non-decreasing in income, and one more unit of income
\* inside a bracket's slice [lower, upper) costs exactly that bracket's rate.
C1_MonotoneExactMarginal ==
    (BracketTableInvariant(brackets) /\ taxCall.called /\ prevTaxCall.called) =>
        /\ (prevTaxCall.income <= taxCall.income => prevTaxCall.tax <= taxCall.tax)
        /\ \A i \in 1..Len(brackets) :
              ( /\ brackets[i][1] <= prevTaxCall.income
                /\ taxCall.income = prevTaxCall.income + 1
                /\ LeqInf(taxCall.income, brackets[i][2]) )
              => taxCall.tax - prevTaxCall.tax = brackets[i][3]

\* Two calls one unit apart inside the middle bracket of a three-bracket
\* table whose rates differ, the upper one paying the middle rate.
C1_Witness ==
    /\ BracketTableInvariant(brackets)
    /\ Len(brackets) = 3
    /\ brackets[1][3] = 10 /\ brackets[2][3] = 10 /\ brackets[3][3] = 0
    /\ taxCall.called /\ prevTaxCall.called
    /\ prevTaxCall.income = brackets[2][1]
    /\ taxCall.income = prevTaxCall.income + 1
    /\ taxCall.income <= brackets[2][2]
    /\ taxCall.tax = prevTaxCall.tax + 10

\* C2: the United States table satisfies the BracketTable invariant, so for
\* every income >= 0 the per-bracket taxed amounts sum to exactly the income.
C2_USTableCoversIncome ==
    (brackets = USBrackets /\ taxCall.called /\ taxCall.income >= 0) =>
        taxCall.taxed = taxCall.income

\* C3: with the United States table, calculate_tax(50000) = 6307.50.
C3_USExample50000 ==
    (brackets = USBrackets /\ taxCall.called /\ taxCall.income = 50000) =>
        taxCall.tax = 630750

\* C4: for every income <= 0 and every table whose lower bounds are >= 0,
\* calculate_tax returns 0, also for the negative taxable income the app
\* passes when expenses exceed income.
C4_NonPositiveIncomeNoTax ==
    /\ (taxCall.called /\ taxCall.income <= 0) => taxCall.tax = 0
    /\ (pass.done /\ pass.taxable_income <= 0) => pass.tax_amount = 0

\* A negative income on a table with several taxing brackets, and a pass
\* whose expenses exceed its income.
C4_Witness ==
    /\ taxCall.called /\ taxCall.income < 0 /\ taxCall.tax = 0
    /\ Len(brackets) >= 2
    /\ \A i \in 1..Len(brackets) : brackets[i][1] >= 0 /\ brackets[i][3] > 0
    /\ pass.done /\ pass.taxable_income < 0 /\ pass.tax_amount = 0

(***************************************************************************)
(* Claims about the currency converter                                     *)
(***************************************************************************)

\* The reasons a fetch fails.
FailureKinds == {"no_credential", "network", "http_status", "malformed", "bad_result"}

\* amount / CURRENCY_RATES[from] * CURRENCY_RATES[to], the division skipped
\* for from = USD and the multiplication for to = USD.
StaticValue(amount, from_currency, to_currency) ==
    LET usd == IF from_currency = "USD" THEN amount
               ELSE RDiv(amount, CURRENCY_RATES[from_currency])
    IN  IF to_currency = "USD" THEN usd ELSE RMul(usd, CURRENCY_RATES[to_currency])

\* C5: a call with from # to, both codes in the static table, whose fetch
\* failed (for any of the reasons) does not raise and returns exactly the
\* USD-pivot value of the static table CURRENCY_RATES.
C5_FetchFailureUsesFallback ==
    ( /\ call.done /\ call.fetched /\ call.kind \in FailureKinds
      /\ call.from # call.to
      /\ call.from \in DOMAIN CURRENCY_RATES
      /\ call.to \in DOMAIN CURRENCY_RATES )
    => /\ call.raised = "none"
       /\ call.value = StaticValue(call.amount, call.from, call.to)

\* A fetch answered with a result field other than "success" (the payload
\* carrying other rates), converting GBP to EUR at 0.92 / 0.79.
C5_Witness ==
    /\ call.done /\ call.fetched /\ call.kind = "bad_result"
    /\ call.from = "GBP" /\ call.to = "EUR"
    /\ call.amount = <<100, 1>>
    /\ call.raised = "none" /\ call.value = <<9200, 79>>

\* C6: fetch attempts are at least one cache-expiry window apart, whatever
\* their outcome; a call with from # to inside the window of the latest
\* attempt fetches nothing and uses the table that attempt obtained, and a
\* call outside every window fetches.
C6_OneFetchPerWindow ==
    /\ \A i \in 1..(Len(fetchTimes) - 1) :
          fetchTimes[i + 1] - fetchTimes[i] >= CacheTTL
    /\ (call.done /\ call.from # call.to) =>
          LET earlier == IF call.fetched THEN Len(fetchTimes) - 1 ELSE Len(fetchTimes)
              inWindow == earlier >= 1 /\ call.at - fetchTimes[earlier] < CacheTTL
          IN  /\ inWindow => (~call.fetched /\ call.rates = lastFetched)
              /\ ~inWindow => (call.fetched /\ fetchTimes[Len(fetchTimes)] = call.at)

\* A second attempt exactly one window after the first, failed, and a later
\* call inside its window served the fallback table without a retry.
C6_Witness ==
    /\ Len(fetchTimes) = 2
    /\ fetchTimes[2] - fetchTimes[1] = CacheTTL
    /\ lastFetched = CURRENCY_RATES
    /\ call.done /\ call.from # call.to /\ ~call.fetched
    /\ call.at > fetchTimes[2]
    /\ call.rates = CURRENCY_RATES

\* The non-USD codes of a call; "USD" is never looked up.
LookedUp(c) == {c.from, c.to} \ {"USD"}

\* C7: a call with from # to and a code unknown to the rate table it
\* obtained fails with an unknown-key error.
C7_UnknownCodeRaises ==
    ( /\ call.done /\ call.from # call.to
      /\ ~(LookedUp(call) \subseteq DOMAIN call.rates) )
    => call.raised = "KeyError"

\* C7 as amended: such a call is recomputed whole from the static table
\* CURRENCY_RATES; it fails with an unknown-key error exactly when a
\* non-USD code is missing from CURRENCY_RATES too, and no missing code is
\* given a default rate.
C7_UnknownCodeFallsBackOrRaises ==
    ( /\ call.done /\ call.from # call.to
      /\ ~(LookedUp(call) \subseteq DOMAIN call.rates) )
    => IF LookedUp(call) \subseteq DOMAIN CURRENCY_RATES
       THEN /\ call.raised = "none"
            /\ call.value = StaticValue(call.amount, call.from, call.to)
       ELSE call.raised = "KeyError"

\* A live table without GBP was obtained and GBP -> EUR returned the static
\* value although the live table prices EUR differently.
C7_Witness ==
    /\ call.done /\ call.rates = LiveB
    /\ call.from = "GBP" /\ call.to = "EUR"
    /\ call.raised = "none" /\ call.value = <<9200, 79>>

\* C9: a call with from = to returns the amount unchanged, attempts no
\* fetch and leaves the cache as it was.
C9_SameCurrencyIsIdentity ==
    [][ ((call' # call \/ prev' # prev) /\ call'.from = call'.to) =>
            /\ call'.raised = "none"
            /\ call'.value = call'.amount
            /\ ~call'.fetched
            /\ cache' = cache
            /\ fetchTimes' = fetchTimes
            /\ lastFetched' = lastFetched ]_vars

\* convert_currency(100, "USD", "USD") made while the cache entry is
\* expired: 100 is returned and the expired entry is still there.
C9_Witness ==
    /\ call.done /\ call.from = "USD" /\ call.to = "USD"
    /\ call.amount = <<100, 1>> /\ call.value = <<100, 1>>
    /\ call.at = now
    /\ cache.has /\ now - cache.at >= CacheTTL
    /\ Len(fetchTimes) = 1

\* C10: converting X from A to B and the result back from B to A on the
\* same rate table, A and B present in it, returns X.
C10_RoundTrip ==
    ( /\ prev.done /\ call.done
      /\ call.amount = prev.value /\ call.from = prev.to /\ call.to = prev.from
      /\ \/ prev.from = prev.to
         \/ /\ call.rates = prev.rates
            /\ {prev.from, prev.to} \subseteq DOMAIN prev.rates )
    => /\ call.raised = "none"
       /\ call.value = prev.amount

\* 100 GBP to SEK and back on the live table, neither code being the pivot.
C10_Witness ==
    /\ prev.done /\ call.done
    /\ prev.from = "GBP" /\ prev.to = "SEK"
    /\ prev.rates = LiveA /\ call.rates = LiveA
    /\ prev.value = <<1250, 1>>
    /\ call.from = "SEK" /\ call.to = "GBP"
    /\ call.amount = prev.value /\ call.value = <<100, 1>>

(***************************************************************************)
(* Claims about the advisor                                                *)
(***************************************************************************)

\* Every tip in the order the eight rules emit them.
TipOrder ==
    <<"retirement_high", "retirement", "home_office", "health_insurance",
      "expense_ratio", "sub_software", "sub_training", "sub_supplies",
      "s_corp", "tax_professional", "quarterly", "education", "marketing">>

TipPos(t) == CHOOSE k \in 1..Len(TipOrder) : TipOrder[k] = t

Emitted(c) == {c.tips[k] : k \in 1..Len(c.tips)}

\* C8: the returned tips are exactly the tips of the rules whose condition
\* holds, each once, in the fixed rule order; for income 150000, no
\* deductions and expenses of 10% of the income that is every tip but the
\* generic retirement one.
C8_TipsAreTheRulesThatHold ==
    tipsCall.done =>
      LET c == tipsCall
          has(name) == name \in DOMAIN c.deductions
          low == c.income = 0 \/ 5 * SumAmounts(c.expenses) < c.income
          E == Emitted(c)
      IN  /\ E \subseteq {TipOrder[k] : k \in 1..Len(TipOrder)}
          /\ \A i, j \in 1..Len(c.tips) : i < j => TipPos(c.tips[i]) < TipPos(c.tips[j])
          /\ "retirement_high" \in E <=> (~has("Retirement Contributions") /\ c.income > 100000)
          /\ "retirement" \in E <=> (~has("Retirement Contributions") /\ c.income <= 100000)
          /\ "home_office" \in E <=> ~has("Home Office")
          /\ "health_insurance" \in E <=> ~has("Health Insurance")
          /\ \A t \in {"expense_ratio", "sub_software", "sub_training", "sub_supplies"} :
                t \in E <=> low
          /\ "s_corp" \in E <=> c.income > 100000
          /\ "tax_professional" \in E <=> (c.income > 100000 /\ ~has("Professional Services"))
          /\ "quarterly" \in E
          /\ "education" \in E <=> ~has("Professional Development")
          /\ "marketing" \in E <=> ~has("Marketing & Advertising")
          /\ (c.income = 150000 /\ c.deductions = << >> /\ SumAmounts(c.expenses) = 15000) =>
                c.tips = <<"retirement_high", "home_office", "health_insurance",
                           "expense_ratio", "sub_software", "sub_training", "sub_supplies",
                           "s_corp", "tax_professional", "quarterly", "education",
                           "marketing">>

\* The call of the example: income 150000, nothing selected, expenses 15000.
C8_Witness ==
    /\ tipsCall.done
    /\ tipsCall.income = 150000
    /\ tipsCall.deductions = << >>
    /\ tipsCall.expenses = <<15000>>
    /\ Len(tipsCall.tips) = 12
    /\ tipsCall.tips[1] = "retirement_high"
    /\ tipsCall.tips[10] = "quarterly"

(***************************************************************************)
(* Claims about the quarterly scheduler and the pass                       *)
(***************************************************************************)

Quarters == {"Q1", "Q2", "Q3", "Q4"}

\* C11: calculate_quarterly_tax returns exactly the entries Q1..Q4, each
\* amount a quarter of tax_amount whatever annual_income is, the four
\* summing to tax_amount; the due dates are April 15, June 15 and September
\* 15 of the current year and January 15 of the next; for tax_amount 4000
\* every amount is 1000.
C11_FourEqualInstallments ==
    quarterCall.done =>
      LET q == quarterCall.quarters
          tax == <<quarterCall.tax_amount, 1>>
      IN  /\ DOMAIN q = Quarters
          /\ \A k \in Quarters : RMul(q[k].amount, <<4, 1>>) = tax
          /\ RAdd(RAdd(q.Q1.amount, q.Q2.amount), RAdd(q.Q3.amount, q.Q4.amount)) = tax
          /\ q.Q1.due_date = <<"April", 15, quarterCall.year>>
          /\ q.Q2.due_date = <<"June", 15, quarterCall.year>>
          /\ q.Q3.due_date = <<"September", 15, quarterCall.year>>
          /\ q.Q4.due_date = <<"January", 15, quarterCall.year + 1>>
          /\ quarterCall.tax_amount = 400000 =>
                \A k \in Quarters : q[k].amount = <<100000, 1>>

\* calculate_quarterly_tax(50000, 4000) called after the year has changed.
C11_Witness ==
    /\ quarterCall.done
    /\ quarterCall.annual_income = 50000
    /\ quarterCall.tax_amount = 400000
    /\ quarterCall.year = LastYear
    /\ quarterCall.quarters.Q3.amount = <<100000, 1>>
    /\ quarterCall.quarters.Q4.due_date = <<"January", 15, LastYear + 1>>

\* What a pass shows that the claim is about.
Outcome(r) == <<r.taxable_income, r.tax_amount, r.net_profit,
                {r.quarterly_taxes[k].amount : k \in Quarters}>>

\* C12: in a pass the taxable income is total_income - total_expenses, the
\* tax amount is calculate_tax of it, and every quarterly amount is a
\* quarter of that tax; two passes with the same income sources, expenses
\* and country have the same taxable income, tax amount, net profit and
\* quarterly amounts whatever deductions are selected in each.
C12_DeductionsDoNotChangeThePass ==
    /\ run.done =>
          /\ run.taxable_income = run.total_income - run.total_expenses
          /\ run.total_income = SumAmounts(run.income_sources)
          /\ run.total_expenses = SumAmounts(run.expenses)
          /\ run.tax_amount = calculate_tax(run.taxable_income, TAX_BRACKETS[run.country])
          /\ run.net_profit = 100 * run.taxable_income - run.tax_amount
          /\ \A k \in Quarters :
                RMul(run.quarterly_taxes[k].amount, <<4, 1>>) = <<run.tax_amount, 1>>
    /\ ( /\ run.done /\ prevRun.done
         /\ run.income_sources = prevRun.income_sources
         /\ run.expenses = prevRun.expenses
         /\ run.country = prevRun.country )
       => Outcome(run) = Outcome(prevRun)

\* Two passes over the same entries that owe tax, the first with nothing
\* selected and the second with two deductions selected.
C12_Witness ==
    /\ run.done /\ prevRun.done
    /\ run.income_sources = <<90000, 30000>> /\ run.expenses = <<20000, 30000>>
    /\ run.income_sources = prevRun.income_sources
    /\ run.expenses = prevRun.expenses
    /\ prevRun.selected_deductions = << >>
    /\ DOMAIN run.selected_deductions = {"Home Office", "Travel"}
    /\ run.taxable_income = 70000
    /\ run.tax_amount > 0
    /\ run.tax_amount = prevRun.tax_amount

====
